---- MODULE Spec2Model ----
(***************************************************************************)
(* The votekick command (src/src/commands/moderation/votekick.ts): one     *)
(* invocation of execute(msg, args) is a flow that is suspended at every   *)
(* await.  Each action below is the code that runs between two awaits,     *)
(* with the platform's answer to the awaited call drawn as its input.      *)
(***************************************************************************)
EXTENDS Integers, Sequences, FiniteSets

\* ------------------------------------------------------------------ bounds
MaxVotes == 5        \* largest reaction-set size the platform reports
MaxOthers == 7       \* roster members beyond the named ones

MaxVotesTwo == 1     \* the same, when two invocations run together
MaxMembersTwo == 2   \* size of the roster, when two invocations run together

\* ------------------------------------------------------- program constants
VOTE_DURATION == 60000
SAFETY_MARGIN == 1000
REQUIRED_VOTES_NUM == 1      \* REQUIRED_VOTES_PERCENTAGE = 0.5 = NUM / DEN
REQUIRED_VOTES_DEN == 2

\* ---------------------------------------------------------------- strings
\* A string is a sequence of characters, so that trim() and toLowerCase()
\* are computed and not assumed.
UpperChars == <<"A", "B", "U", "Z">>
LowerChars == <<"a", "b", "u", "z">>

CharToLower(c) ==
    IF \E k \in 1..Len(UpperChars) : UpperChars[k] = c
    THEN LowerChars[CHOOSE k \in 1..Len(UpperChars) : UpperChars[k] = c]
    ELSE c

toLowerCase(s) == [k \in 1..Len(s) |-> CharToLower(s[k])]

RECURSIVE trimStart(_)
trimStart(s) ==
    IF s # <<>> /\ Head(s) = " " THEN trimStart(Tail(s)) ELSE s

RECURSIVE trimEnd(_)
trimEnd(s) ==
    IF s # <<>> /\ s[Len(s)] = " " THEN trimEnd(SubSeq(s, 1, Len(s) - 1)) ELSE s

trim(s) == trimEnd(trimStart(s))

\* ------------------------------------------------------------- the roster
\* The members the platform knows by name, in the order fetchMembers()
\* lists them.  A member without a user object has username <<>> (falsy).
Alice == [id |-> <<"u", "1">>, username |-> <<"A", "b">>, bot |-> FALSE]
KickBot == [id |-> <<"u", "2">>, username |-> <<"b", "b">>, bot |-> TRUE]
Bob == [id |-> <<"u", "3">>, username |-> <<" ", "B", "a">>, bot |-> FALSE]
MemberOrder == <<Alice, KickBot, Bob>>

\* A fetched roster: which named members are on it, and how many others.
Rosters == [named : SUBSET (1..Len(MemberOrder)), others : 0..MaxOthers]

RosterLength(roster) == Cardinality(roster.named) + roster.others

\* The find() predicate of the target search.
MatchesSearch(member, arg) ==
    LET searchTerm == trim(arg)
        username == trim(member.username)
    IN  \/ member.id = searchTerm
        \/ (username # <<>> /\ toLowerCase(username) = toLowerCase(searchTerm))

\* Array.prototype.find: the first member in roster order that matches, as
\* an option (<<>> is undefined).
FindMember(roster, arg) ==
    LET hits == {k \in roster.named : MatchesSearch(MemberOrder[k], arg)}
    IN  IF hits = {} THEN <<>>
        ELSE <<MemberOrder[CHOOSE k \in hits : \A j \in hits : k <= j]>>

\* ------------------------------------------------------------ invocations
Invocations == {"i1", "i2"}
AuthorId == [i \in Invocations |-> IF i = "i1" THEN <<"u", "8">> ELSE <<"u", "9">>]

Reason == <<"z">>
ArgLists ==
    { <<>>,
      << <<"u", "1">> >>,
      << <<"u", "1">>, Reason >>,
      << <<"B", "B">>, Reason, Reason >>,
      << <<"B", "a">>, Reason >>,
      << <<"u", "2">>, Reason >>,
      << <<"U", "1">>, Reason >>,
      << <<"z", "z">>, Reason >> }

Configs == [moderation : BOOLEAN, blockedUsers : {{}, {<<"u", "8">>, <<"u", "9">>}}]

\* ------------------------------------------------------------------ state
VARIABLES
    inv,      \* per invocation of execute: its position and its locals
    timers,   \* the pending setTimeout callbacks of the event loop
    now,      \* the event loop's clock, in ms
    running   \* the timer list the event loop is running through, or "none"

vars == <<inv, timers, now, running>>

\* An optional value: <<>> is undefined, <<v>> is v.
Undefined == <<>>
Some(v) == <<v>>

Markers == {"yes", "no"}     \* "✅" and "❌"

\* The locals of an invocation before execute has run.
NewInvocation(a, p) ==
    [ pc |-> p,
      args |-> a,
      config |-> Undefined,          \* line 19
      serverConfig |-> Undefined,    \* line 42
      fetches |-> 0,                 \* calls of server.fetchMembers()
      startCount |-> Undefined,      \* length of the roster fetched at line 58
      targetMember |-> Undefined,    \* line 56
      voteMessage |-> FALSE,         \* line 93: the announcement exists
      react |-> [m \in Markers |-> "unsent"],
      race |-> "none",               \* the Promise.race of line 125
      startedAt |-> 0,
      tallyReads |-> 0,              \* calls of channel.fetchMessage()
      message |-> "unfetched",       \* line 132: what fetchMessage() gave
      yesReaction |-> Undefined,     \* line 136
      noReaction |-> Undefined,      \* line 137
      yesVotes |-> 0,
      noVotes |-> 0,
      memberCount |-> Undefined,
      targetListed |-> TRUE,         \* the roster of line 143 lists targetMember
      requiredVotes |-> 0,
      votekickPasses |-> Undefined,
      kicks |-> 0,                   \* calls of targetMember.kick()
      kick |-> "uncalled",           \* the promise of targetMember.kick()
      kicked |-> Undefined,          \* the member kick() was called on
      replies |-> <<>>,              \* the msg.reply() calls, in order
      logged |-> <<>> ]              \* mainLogger.error() messages

\* One invocation runs; the other slot is a command that was never issued.
Init ==
    /\ \E a \in ArgLists :
          inv = [i \in Invocations |->
                    IF i = "i1" THEN NewInvocation(a, "getConfig")
                    ELSE NewInvocation(<<>>, "idle")]
    /\ timers = {}
    /\ now = 0
    /\ running = "none"

\* The invocation `votekick u1 z`: a target given by id, and a reason.
InitValidUsage ==
    /\ inv = [i \in Invocations |->
                 IF i = "i1" THEN NewInvocation(<< <<"u", "1">>, Reason >>, "getConfig")
                 ELSE NewInvocation(<<>>, "idle")]
    /\ timers = {}
    /\ now = 0
    /\ running = "none"

\* Two members issue `votekick u1 z` against the same target.
InitTwo ==
    /\ inv = [i \in Invocations |->
                 NewInvocation(<< <<"u", "1">>, Reason >>, "getConfig")]
    /\ timers = {}
    /\ now = 0
    /\ running = "none"

\* ---------------------------------------------------------------- helpers
\* A msg.reply() call: what it says, whether execute awaits it inside the
\* try block, and how its promise settled.
ReplyOf(kind, cause, awaited, status) ==
    [kind |-> kind, cause |-> cause, awaited |-> awaited, status |-> status]

\* `return msg.reply(...)`: the reply is sent and its promise is returned
\* without being awaited, so no catch block of execute sees it fail.
ReturnReply(r, kind) ==
    [r EXCEPT !.pc = "replying",
              !.replies = Append(@, ReplyOf(kind, "", FALSE, "pending"))]

\* `return msg.reply(...)` of an embed that prints figures of the tally.
ReturnReport(r, kind, figures) ==
    [r EXCEPT !.pc = "replying",
              !.replies = Append(@, [kind |-> kind, cause |-> "", awaited |-> FALSE,
                                     status |-> "pending", figures |-> figures])]

\* The embed with a total that leaves the no votes out.
PassedFigures_TotalIsYes(r) ==
    [yes |-> r.yesVotes, no |-> r.noVotes, total |-> r.yesVotes]

\* Line 156: "Final Votes: Yes: y, No: n (Total: y + n)", the figures of the
\* "Votekick Successful" embed.
PassedFigures(r) ==
    [yes |-> r.yesVotes, no |-> r.noVotes, total |-> r.yesVotes + r.noVotes]

\* Lines 178-179: the figures of the "Votekick Failed" embed, which also
\* prints "Required Votes".
FailedFigures(r) ==
    [yes |-> r.yesVotes, no |-> r.noVotes, total |-> r.yesVotes + r.noVotes,
     required |-> r.requiredVotes]

\* The top-level catch block, lines 185-194.
Catch(r, cause) ==
    [r EXCEPT !.pc = "replying",
              !.logged = Append(@, "Error in votekick command:"),
              !.replies = Append(@, ReplyOf("UnknownError", cause, FALSE, "pending"))]

\* requiredVotes = Math.ceil(memberCount * REQUIRED_VOTES_PERCENTAGE)
RequiredVotes(memberCount) ==
    (memberCount * REQUIRED_VOTES_NUM + REQUIRED_VOTES_DEN - 1) \div REQUIRED_VOTES_DEN

\* line 146
VotekickPasses(yesVotes, noVotes, requiredVotes) ==
    yesVotes > noVotes /\ yesVotes >= requiredVotes

\* `if (!memberCount) throw`: undefined and 0 are both falsy.
MemberCountMissing(count) == count = Undefined \/ count = Some(0)

\* `reaction?.size || 0`
ReactionSize(reaction) == IF reaction = Undefined THEN 0 ELSE reaction[1]

\* ---------------------------------------------------------------- actions
\* The first two checks in the other order: the argument count before the
\* feature flag.
GetConfig_ArgsFirst(i) ==
    /\ inv[i].pc = "getConfig"
    /\ \/ inv' = [inv EXCEPT ![i].pc = "rejected"]
       \/ \E c \in Configs :
             LET r == [inv[i] EXCEPT !.config = Some(c)]
             IN  inv' = [inv EXCEPT ![i] =
                    IF Len(r.args) < 2 THEN ReturnReply(r, "InvalidUsage")
                    ELSE IF ~c.moderation THEN ReturnReply(r, "FeatureDisabled")
                    ELSE [r EXCEPT !.pc = "getServerConfig"]]
    /\ UNCHANGED <<timers, now, running>>

\* Lines 15-38: the awaited db.getServerConfig() settles; the feature flag
\* and the argument count are checked outside the try block.
GetConfig(i) ==
    /\ inv[i].pc = "getConfig"
    /\ \/ inv' = [inv EXCEPT ![i].pc = "rejected"]
       \/ \E c \in Configs :
             LET r == [inv[i] EXCEPT !.config = Some(c)]
             IN  inv' = [inv EXCEPT ![i] =
                    IF ~c.moderation THEN ReturnReply(r, "FeatureDisabled")
                    ELSE IF Len(r.args) < 2 THEN ReturnReply(r, "InvalidUsage")
                    ELSE [r EXCEPT !.pc = "getServerConfig"]]
    /\ UNCHANGED <<timers, now, running>>

\* Lines 40-53: the second configuration read, inside the try block.
GetServerConfig(i) ==
    /\ inv[i].pc = "getServerConfig"
    /\ \/ inv' = [inv EXCEPT ![i] = Catch(@, "getServerConfig failed")]
       \/ \E c \in Configs :
             LET r == [inv[i] EXCEPT !.serverConfig = Some(c)]
             IN  inv' = [inv EXCEPT ![i] =
                    IF AuthorId[i] \in c.blockedUsers THEN ReturnReply(r, "AccessDenied")
                    ELSE [r EXCEPT !.pc = "fetchMembers"]]
    /\ UNCHANGED <<timers, now, running>>

\* Target resolution without the bot check of line 82.
ResolveTarget_BotsAllowed(r, found) ==
    LET q == [r EXCEPT !.targetMember = found]
    IN  IF found = Undefined THEN ReturnReply(q, "TargetNotFound")
        ELSE [q EXCEPT !.pc = "announce"]

\* Lines 55-90: target resolution, with its own catch, and the bot check.
ResolveTarget(r, found) ==
    LET q == [r EXCEPT !.targetMember = found]
    IN  IF found = Undefined THEN ReturnReply(q, "TargetNotFound")
        ELSE IF found[1].bot THEN ReturnReply(q, "TargetIsBot")
        ELSE [q EXCEPT !.pc = "announce"]

\* Target resolution whose catch logs the roster error and throws it again.
FetchMembers_Rethrows(i) ==
    /\ inv[i].pc = "fetchMembers"
    /\ LET r == [inv[i] EXCEPT !.fetches = @ + 1]
       IN  \/ inv' = [inv EXCEPT ![i] =
                 Catch([r EXCEPT !.logged = Append(@, "Error fetching members:")],
                       "fetchMembers failed")]
           \/ \E roster \in Rosters :
                 inv' = [inv EXCEPT ![i] =
                    ResolveTarget([r EXCEPT !.startCount = Some(RosterLength(roster))],
                                  FindMember(roster, r.args[1]))]
    /\ UNCHANGED <<timers, now, running>>

FetchMembers(i) ==
    /\ inv[i].pc = "fetchMembers"
    /\ LET r == [inv[i] EXCEPT !.fetches = @ + 1]
       IN  \/ inv' = [inv EXCEPT ![i] =
                 ResolveTarget([r EXCEPT !.logged = Append(@, "Error fetching members:")],
                               Undefined)]
           \/ \E roster \in Rosters :
                 inv' = [inv EXCEPT ![i] =
                    ResolveTarget([r EXCEPT !.startCount = Some(RosterLength(roster))],
                                  FindMember(roster, r.args[1]))]
    /\ UNCHANGED <<timers, now, running>>

\* The "Votekick Started" reply of line 93; "empty" is a reply that resolved
\* to undefined.
Announcement(status) == ReplyOf("VotekickStarted", "", TRUE, status)

\* Lines 92-117: the awaited announcement reply settles; on success both
\* react() calls are issued.
Announce(i) ==
    /\ inv[i].pc = "announce"
    /\ \/ inv' = [inv EXCEPT ![i] =
              Catch([@ EXCEPT !.replies = Append(@, Announcement("failed"))],
                    "reply failed")]
       \/ inv' = [inv EXCEPT ![i] =
              Catch([@ EXCEPT !.replies = Append(@, Announcement("empty"))],
                    "Failed to create vote message")]
       \/ inv' = [inv EXCEPT ![i] =
              [@ EXCEPT !.pc = "reacting",
                        !.voteMessage = TRUE,
                        !.replies = Append(@, Announcement("delivered")),
                        !.react = [m \in Markers |-> "pending"]]]
    /\ UNCHANGED <<timers, now, running>>

\* The event loop keeps one list of pending timers per delay, in the order
\* they were set: the primary timers (delay VOTE_DURATION) are one list, the
\* safety timers (delay VOTE_DURATION + 1000) another.  The place a timer set
\* now takes in the list of its kind: after all that are pending there.
ListEnd(kind) ==
    LET pending == {u \in timers : u.kind = kind}
    IN  IF pending = {} THEN 0
        ELSE 1 + (CHOOSE n \in {u.order : u \in pending} :
                     \A u \in pending : u.order <= n)

\* A race between two promises that nothing settles: no timer is set.
RaceTimers_NeverSet(i, t) == {}

\* The race with a primary timer that does not wait for the window.
RaceTimers_NoDelay(i, t) ==
    { [inv |-> i, kind |-> "primary", deadline |-> t,
       order |-> ListEnd("primary")],
      [inv |-> i, kind |-> "safety", deadline |-> t + SAFETY_MARGIN,
       order |-> ListEnd("safety")] }

\* The two timers of the race, lines 125-129.
RaceTimers(i, t) ==
    { [inv |-> i, kind |-> "primary", deadline |-> t + VOTE_DURATION,
       order |-> ListEnd("primary")],
      [inv |-> i, kind |-> "safety", deadline |-> t + VOTE_DURATION + SAFETY_MARGIN,
       order |-> ListEnd("safety")] }

\* Reaction setup that waits for both react() promises and goes on whatever
\* their results (Promise.allSettled in place of Promise.all).
ReactSettled_IgnoresFailure(i, m, ok) ==
    /\ inv[i].react[m] = "pending"
    /\ LET r == [inv[i] EXCEPT !.react[m] = IF ok THEN "ok" ELSE "failed"]
       IN  IF r.pc = "reacting" /\ \A k \in Markers : r.react[k] # "pending"
           THEN /\ inv' = [inv EXCEPT ![i] =
                       [r EXCEPT !.pc = "waiting", !.race = "pending", !.startedAt = now]]
                /\ timers' = timers \cup RaceTimers(i, now)
           ELSE inv' = [inv EXCEPT ![i] = r] /\ UNCHANGED timers
    /\ UNCHANGED <<now, running>>

\* Reaction setup that goes on to the race at the first fulfilled react()
\* (Promise.any in place of Promise.all).
ReactSettled_FirstSuccessProceeds(i, m, ok) ==
    /\ inv[i].react[m] = "pending"
    /\ LET r == [inv[i] EXCEPT !.react[m] = IF ok THEN "ok" ELSE "failed"]
       IN  IF r.pc = "reacting" /\ ok
           THEN /\ inv' = [inv EXCEPT ![i] =
                       [r EXCEPT !.pc = "waiting", !.race = "pending", !.startedAt = now]]
                /\ timers' = timers \cup RaceTimers(i, now)
           ELSE inv' = [inv EXCEPT ![i] = r] /\ UNCHANGED timers
    /\ UNCHANGED <<now, running>>

\* Lines 113-129: one react() promise settles.  Promise.all rejects on the
\* first rejection and resolves once both are fulfilled; a settlement that
\* arrives after Promise.all has settled changes nothing but the marker.
ReactSettled(i, m, ok) ==
    /\ inv[i].react[m] = "pending"
    /\ LET r == [inv[i] EXCEPT !.react[m] = IF ok THEN "ok" ELSE "failed"]
       IN  IF r.pc # "reacting"
           THEN inv' = [inv EXCEPT ![i] = r] /\ UNCHANGED timers
           ELSE IF ~ok
           THEN /\ inv' = [inv EXCEPT ![i] =
                       [r EXCEPT !.pc = "replying",
                                 !.logged = Append(@, "Failed to add vote reactions:"),
                                 !.replies =
                                     Append(@, ReplyOf("ReactionSetupFailure", "", TRUE,
                                                       "pending"))]]
                /\ UNCHANGED timers
           ELSE IF \A k \in Markers : r.react[k] = "ok"
           THEN /\ inv' = [inv EXCEPT ![i] =
                       [r EXCEPT !.pc = "waiting", !.race = "pending", !.startedAt = now]]
                /\ timers' = timers \cup RaceTimers(i, now)
           ELSE inv' = [inv EXCEPT ![i] = r] /\ UNCHANGED timers
    /\ UNCHANGED <<now, running>>

ReactSettle(i) == \E m \in Markers, ok \in BOOLEAN : ReactSettled(i, m, ok)

\* -------------------------------------------------------------- the timers
\* Time passes up to the deadline of a pending timer; the event loop may be
\* late, so it can pass the deadline of one timer and reach that of another.
\* The clock the timers are compared with does not move while the event loop
\* is running through the timers that are due.
AdvanceTime ==
    /\ running = "none"
    /\ \E t \in timers : t.deadline > now /\ now' = t.deadline
    /\ UNCHANGED <<inv, timers, running>>

\* The first pending timer of its list.
IsHead(t) == \A u \in timers : u.kind = t.kind => t.order <= u.order

\* The timer the event loop runs next.  It runs a list from its head for as
\* long as the head is due, and only then turns to another list: the one
\* whose head has the earliest deadline.  So a due timer runs before an
\* earlier due timer of another list when the loop is already in its list.
FiresNext(t) ==
    /\ t \in timers
    /\ t.deadline <= now
    /\ IsHead(t)
    /\ IF \E u \in timers : u.kind = running /\ IsHead(u) /\ u.deadline <= now
       THEN t.kind = running
       ELSE \A u \in timers : IsHead(u) => t.deadline <= u.deadline

\* The list the event loop is in once it has run timer t: that of t while
\* timers are due, none when it has run them all.
ListAfter(t) ==
    IF \E u \in timers \ {t} : u.deadline <= now THEN t.kind ELSE "none"

\* Line 126: the primary timer resolves its promise; if the race is still
\* open it resolves and the flow resumes at line 132.
PrimaryTimerFires(i) ==
    \E t \in timers :
        /\ t.inv = i /\ t.kind = "primary" /\ FiresNext(t)
        /\ timers' = timers \ {t}
        /\ running' = ListAfter(t)
        /\ inv' = [inv EXCEPT ![i] =
              IF @.race = "pending"
              THEN [@ EXCEPT !.race = "resolved", !.pc = "fetchMessage"]
              ELSE @]
        /\ UNCHANGED now

\* Lines 127-128: the safety timer rejects its promise; if the race is still
\* open it rejects and the flow resumes in the catch block.
SafetyTimerFires(i) ==
    \E t \in timers :
        /\ t.inv = i /\ t.kind = "safety" /\ FiresNext(t)
        /\ timers' = timers \ {t}
        /\ running' = ListAfter(t)
        /\ inv' = [inv EXCEPT ![i] =
              IF @.race = "pending"
              THEN Catch([@ EXCEPT !.race = "rejected"], "Vote timed out")
              ELSE @]
        /\ UNCHANGED now

\* ---------------------------------------------------------------- the tally
\* What message.reactions?.get(marker) can return.
ReactionReads == {Undefined} \cup {Some(n) : n \in 0..MaxVotes}

\* The tally without the check of line 133: a missing announcement counts
\* as no votes.
FetchedMessage_MissingIsNoVotes(r, message) ==
    IF message = Undefined
    THEN [r EXCEPT !.yesVotes = 0, !.noVotes = 0, !.pc = "fetchMemberCount"]
    ELSE [r EXCEPT !.yesReaction = message[1].yes,
                   !.noReaction = message[1].no,
                   !.yesVotes = ReactionSize(message[1].yes),
                   !.noVotes = ReactionSize(message[1].no),
                   !.pc = "fetchMemberCount"]

\* The tally that reads `.size` of a marker without the optional chaining: a
\* missing marker throws.
FetchedMessage_MissingMarkerThrows(r, message) ==
    IF message = Undefined THEN Catch(r, "Could not fetch vote message")
    ELSE IF message[1].yes = Undefined \/ message[1].no = Undefined
    THEN Catch([r EXCEPT !.yesReaction = message[1].yes, !.noReaction = message[1].no],
               "Cannot read properties of undefined")
    ELSE [r EXCEPT !.yesReaction = message[1].yes,
                   !.noReaction = message[1].no,
                   !.yesVotes = ReactionSize(message[1].yes),
                   !.noVotes = ReactionSize(message[1].no),
                   !.pc = "fetchMemberCount"]

\* Lines 133-140, once fetchMessage() has returned `message` (<<>> when it
\* returned undefined, else the two reaction sets).
FetchedMessage(r, message) ==
    IF message = Undefined THEN Catch(r, "Could not fetch vote message")
    ELSE [r EXCEPT !.yesReaction = message[1].yes,
                   !.noReaction = message[1].no,
                   !.yesVotes = ReactionSize(message[1].yes),
                   !.noVotes = ReactionSize(message[1].no),
                   !.pc = "fetchMemberCount"]

FetchMessage(i) ==
    /\ inv[i].pc = "fetchMessage"
    /\ LET r == [inv[i] EXCEPT !.tallyReads = @ + 1]
       IN  \/ inv' = [inv EXCEPT ![i] =
                 Catch([r EXCEPT !.message = "threw"], "fetchMessage failed")]
           \/ inv' = [inv EXCEPT ![i] =
                 FetchedMessage([r EXCEPT !.message = "absent"], Undefined)]
           \/ \E y \in ReactionReads, n \in ReactionReads :
                 inv' = [inv EXCEPT ![i] =
                    FetchedMessage([r EXCEPT !.message = "present"],
                                   Some([yes |-> y, no |-> n]))]
    /\ UNCHANGED <<timers, now, running>>

\* The decision with the guard of line 148 dropped: the kick is called
\* whatever the decision is.
Decide_KickUnguarded(r) ==
    LET requiredVotes == RequiredVotes(r.memberCount[1])
        votekickPasses == VotekickPasses(r.yesVotes, r.noVotes, requiredVotes)
    IN  [r EXCEPT !.requiredVotes = requiredVotes,
                  !.votekickPasses = Some(votekickPasses),
                  !.pc = "kicking", !.kicks = @ + 1, !.kick = "pending",
                  !.kicked = r.targetMember]

\* The decision with the threshold taken from the roster fetched for target
\* resolution, at the start of the poll.
Decide_UsesStartRoster(r) ==
    LET requiredVotes == RequiredVotes(r.startCount[1])
        votekickPasses == VotekickPasses(r.yesVotes, r.noVotes, requiredVotes)
        q == [r EXCEPT !.requiredVotes = requiredVotes,
                       !.votekickPasses = Some(votekickPasses)]
    IN  IF votekickPasses
        THEN [q EXCEPT !.pc = "kicking", !.kicks = @ + 1, !.kick = "pending",
                       !.kicked = r.targetMember]
        ELSE ReturnReport(q, "Failed", FailedFigures(q))

\* The decision with a registry of removals shared by the invocations: a
\* poll that passes after another poll has called the kick on the same
\* member reports the failure reply instead of calling it again.
Decide_OncePerTarget(r) ==
    LET requiredVotes == RequiredVotes(r.memberCount[1])
        votekickPasses == VotekickPasses(r.yesVotes, r.noVotes, requiredVotes)
        q == [r EXCEPT !.requiredVotes = requiredVotes,
                       !.votekickPasses = Some(votekickPasses)]
    IN  IF votekickPasses /\ \A j \in Invocations : inv[j].kicked # r.targetMember
        THEN [q EXCEPT !.pc = "kicking", !.kicks = @ + 1, !.kick = "pending",
                       !.kicked = r.targetMember]
        ELSE ReturnReport(q, "Failed", FailedFigures(q))

\* Lines 145-184: the decision, and what it starts: the kick or the
\* "Votekick Failed" reply.
Decide(r) ==
    LET requiredVotes == RequiredVotes(r.memberCount[1])
        votekickPasses == VotekickPasses(r.yesVotes, r.noVotes, requiredVotes)
        q == [r EXCEPT !.requiredVotes = requiredVotes,
                       !.votekickPasses = Some(votekickPasses)]
    IN  IF votekickPasses
        THEN [q EXCEPT !.pc = "kicking", !.kicks = @ + 1, !.kick = "pending",
                       !.kicked = r.targetMember]
        ELSE ReturnReport(q, "Failed", FailedFigures(q))

\* Whether a fetched roster lists the member.
Lists(roster, member) == \E k \in roster.named : MemberOrder[k] = member

\* The tally that looks the target up again in the roster it fetched, and
\* ends the poll with the "User not found" reply when the target has left.
FetchedMemberCount_RechecksTarget(r, count) ==
    LET q == [r EXCEPT !.memberCount = count]
    IN  IF MemberCountMissing(count) THEN Catch(q, "Failed to fetch member count")
        ELSE IF ~r.targetListed THEN ReturnReply(q, "TargetNotFound")
        ELSE Decide(q)

\* Lines 143-144, once the second fetchMembers() has returned.
FetchedMemberCount(r, count) ==
    LET q == [r EXCEPT !.memberCount = count]
    IN  IF MemberCountMissing(count) THEN Catch(q, "Failed to fetch member count")
        ELSE Decide(q)

FetchMemberCount(i) ==
    /\ inv[i].pc = "fetchMemberCount"
    /\ LET r == [inv[i] EXCEPT !.fetches = @ + 1]
       IN  \/ inv' = [inv EXCEPT ![i] = Catch(r, "fetchMembers failed")]
           \/ inv' = [inv EXCEPT ![i] = FetchedMemberCount(r, Undefined)]
           \/ \E roster \in Rosters :
                 inv' = [inv EXCEPT ![i] =
                    FetchedMemberCount([r EXCEPT !.targetListed = Lists(roster, r.targetMember[1])],
                                       Some(RosterLength(roster)))]
    /\ UNCHANGED <<timers, now, running>>

\* The kick without its own try block: a failed kick reaches the top-level
\* catch.
KickSettled_Rethrows(r, ok) ==
    IF ok THEN ReturnReport(r, "Passed", PassedFigures(r)) ELSE Catch(r, "kick failed")

\* Lines 149-171: the awaited targetMember.kick() settles.
KickSettled(r, ok) ==
    IF ok THEN ReturnReport(r, "Passed", PassedFigures(r))
    ELSE ReturnReply([r EXCEPT !.logged =
                         Append(@, "Failed to kick user after successful votekick:")],
                     "PassedButActionFailed")

KickSettle(i) ==
    /\ inv[i].pc = "kicking"
    /\ \E ok \in BOOLEAN :
          inv' = [inv EXCEPT ![i] =
             KickSettled([@ EXCEPT !.kick = IF ok THEN "fulfilled" ELSE "rejected"], ok)]
    /\ UNCHANGED <<timers, now, running>>

\* -------------------------------------------------------------- the replies
\* A msg.reply() settles.  Only the reply of line 120 is awaited inside the
\* try block; the failure of any other one rejects the promise of execute.
ReplySettled(r, ok) ==
    LET n == Len(r.replies)
    IN  IF ok
        THEN [r EXCEPT !.pc = "returned", !.replies[n].status = "delivered"]
        ELSE IF r.replies[n].awaited
        THEN Catch([r EXCEPT !.replies[n].status = "failed"], "reply failed")
        ELSE [r EXCEPT !.pc = "rejected", !.replies[n].status = "failed"]

MsgReply(i) ==
    /\ inv[i].pc = "replying"
    /\ \E ok \in BOOLEAN : inv' = [inv EXCEPT ![i] = ReplySettled(@, ok)]
    /\ UNCHANGED <<timers, now, running>>

\* ------------------------------------------------------------ specification
Next ==
    \/ \E i \in Invocations :
          \/ GetConfig(i)
          \/ GetServerConfig(i)
          \/ FetchMembers(i)
          \/ Announce(i)
          \/ ReactSettle(i)
          \/ PrimaryTimerFires(i)
          \/ SafetyTimerFires(i)
          \/ FetchMessage(i)
          \/ FetchMemberCount(i)
          \/ KickSettle(i)
          \/ MsgReply(i)
    \/ AdvanceTime

Spec == Init /\ [][Next]_vars

\* What the platform answers while two invocations run together: nobody is
\* blocked, reaction sets are small, and the roster has MaxMembersTwo members
\* at the start and at the tally.
SmallAnswers(r) ==
    /\ r.config # Undefined => r.config[1] = [moderation |-> TRUE, blockedUsers |-> {}]
    /\ r.serverConfig # Undefined => r.serverConfig = r.config
    /\ r.startCount # Undefined => r.startCount[1] = MaxMembersTwo
    /\ r.memberCount # Undefined => r.memberCount = r.startCount /\ r.targetListed
    /\ r.yesVotes <= MaxVotesTwo /\ r.noVotes <= MaxVotesTwo
    /\ r.yesReaction # Some(0) /\ r.noReaction # Some(0)

SmallStep == \A i \in Invocations : SmallAnswers(inv'[i])

NextTwo ==
    \/ \E i \in Invocations :
          \/ GetConfig(i) /\ SmallStep
          \/ GetServerConfig(i) /\ SmallStep
          \/ FetchMembers(i) /\ SmallStep
          \/ Announce(i) /\ SmallStep
          \/ ReactSettle(i) /\ SmallStep
          \/ PrimaryTimerFires(i) /\ SmallStep
          \/ SafetyTimerFires(i) /\ SmallStep
          \/ FetchMessage(i) /\ SmallStep
          \/ FetchMemberCount(i) /\ SmallStep
          \/ KickSettle(i) /\ SmallStep
          \/ MsgReply(i) /\ SmallStep
    \/ AdvanceTime

\* Two invocations of execute interleaved at their awaits.
SpecTwo == InitTwo /\ [][NextTwo]_vars

\* Timers fire and every awaited call eventually fulfils or rejects: a step
\* that can be taken is eventually taken.
FairSpec == InitValidUsage /\ [][Next]_vars /\ WF_vars(Next)

\* ------------------------------------------------------------- properties
\* Whether a msg.reply() of this kind was called, or delivered.
Called(r, kind) == \E k \in 1..Len(r.replies) : r.replies[k].kind = kind
Delivered(r, kind) ==
    \E k \in 1..Len(r.replies) :
        r.replies[k].kind = kind /\ r.replies[k].status = "delivered"
HasLogged(r, text) == \E k \in 1..Len(r.logged) : r.logged[k] = text

\* ceil(rosterSize * 0.5) <= yes, stated without the code's arithmetic.
MeetsQuorum(yes, rosterSize) == 2 * yes >= rosterSize

\* C1: whenever a roster size (a non-negative integer) has been read at tally
\* time, the decision exists and is Passed exactly when yes > no and
\* yes >= ceil(rosterSize * 0.5), and Failed otherwise.
C1_DecisionIsQuorum ==
    \A i \in Invocations :
        LET r == inv[i]
        IN  r.memberCount # Undefined =>
                r.votekickPasses =
                    Some(r.yesVotes > r.noVotes /\ MeetsQuorum(r.yesVotes, r.memberCount[1]))

\* C2: when the roster size read at tally time is 0 the poll is still
\* decided, by yes > no alone, and is not turned into an error.
C2_EmptyRosterDecides ==
    \A i \in Invocations :
        LET r == inv[i]
        IN  r.memberCount = Some(0) =>
                /\ r.votekickPasses = Some(r.yesVotes > r.noVotes)
                /\ ~Called(r, "UnknownError")

\* C3: the kick is called at most once per poll, and only once the decision
\* has been computed as Passed: never on a Failed decision, never on a path
\* without a decision.
C3_KickOnceOnlyWhenPassed ==
    \A i \in Invocations :
        LET r == inv[i]
        IN  /\ r.kicks <= 1
            /\ r.kicks = 1 =>
                  /\ r.votekickPasses = Some(TRUE)
                  /\ r.yesVotes > r.noVotes
                  /\ r.yesVotes >= r.requiredVotes
            /\ r.votekickPasses # Some(TRUE) => r.kicks = 0 /\ r.kick = "uncalled"

\* C3 witness: a poll that passed, kicked, and has returned.
C3_Witness ==
    \E i \in Invocations :
        inv[i].kicks = 1 /\ inv[i].kick = "fulfilled" /\ inv[i].pc = "returned"

\* The tally has been started: the announcement is being or has been
\* re-fetched, or something that follows it has happened.
TallyStarted(r) ==
    \/ r.pc \in {"fetchMessage", "fetchMemberCount", "kicking"}
    \/ r.tallyReads > 0
    \/ r.message # "unfetched"
    \/ r.fetches > 1
    \/ r.memberCount # Undefined
    \/ r.votekickPasses # Undefined

\* C4: the tally is started only after the race has resolved, a full window
\* after both markers were attached, and the votes are read once.
C4_TallyAfterWindow ==
    \A i \in Invocations :
        LET r == inv[i]
        IN  /\ r.tallyReads <= 1
            /\ r.fetches <= 2
            /\ TallyStarted(r) =>
                  /\ r.race = "resolved"
                  /\ \A m \in Markers : r.react[m] = "ok"
                  /\ now >= r.startedAt + VOTE_DURATION

\* C4 witness: the votes have been read, at the very end of the window.
C4_Witness ==
    \E i \in Invocations :
        /\ inv[i].tallyReads = 1
        /\ inv[i].message = "present"
        /\ now = inv[i].startedAt + VOTE_DURATION

\* C5: the rejection reported is that of the first failing check in the
\* order feature flag, argument count, blocklist, target resolution, bot;
\* a blocked initiator is rejected before the roster is consulted.
C5_ChecksInOrder ==
    \A i \in Invocations :
        LET r == inv[i]
            moderationOn == r.config # Undefined /\ r.config[1].moderation
            enoughArgs == Len(r.args) >= 2
            blocked == r.serverConfig # Undefined
                       /\ AuthorId[i] \in r.serverConfig[1].blockedUsers
        IN  /\ Called(r, "FeatureDisabled") <=>
                  (r.config # Undefined /\ ~r.config[1].moderation)
            /\ Called(r, "InvalidUsage") <=> (moderationOn /\ ~enoughArgs)
            /\ r.serverConfig # Undefined => (moderationOn /\ enoughArgs)
            /\ Called(r, "AccessDenied") <=> blocked
            /\ blocked => (r.fetches = 0 /\ r.targetMember = Undefined)
            /\ r.fetches > 0 => (r.serverConfig # Undefined /\ ~blocked)
            /\ Called(r, "TargetNotFound") <=>
                  (r.fetches > 0 /\ r.targetMember = Undefined)
            /\ Called(r, "TargetIsBot") <=>
                  (r.targetMember # Undefined /\ r.targetMember[1].bot)

\* C5 witness: a blocked initiator whose target argument names nobody is
\* told AccessDenied.
C5_Witness ==
    \E i \in Invocations :
        /\ Delivered(inv[i], "AccessDenied")
        /\ inv[i].args[1] = <<"z", "z">>
        /\ inv[i].fetches = 0

GateKinds ==
    {"FeatureDisabled", "InvalidUsage", "AccessDenied", "TargetNotFound", "TargetIsBot"}

\* C6: after a rejection by the gate nothing of the poll exists (no
\* announcement, marker, timer, tally or kick), and an announcement is
\* posted only when all five checks have passed.
C6_NoPollWithoutEligibility ==
    \A i \in Invocations :
        LET r == inv[i]
        IN  /\ (\E k \in GateKinds : Called(r, k)) =>
                  /\ ~r.voteMessage
                  /\ ~Called(r, "VotekickStarted")
                  /\ \A m \in Markers : r.react[m] = "unsent"
                  /\ r.race = "none"
                  /\ ~\E t \in timers : t.inv = i
                  /\ r.tallyReads = 0 /\ r.message = "unfetched" /\ r.fetches <= 1
                  /\ r.votekickPasses = Undefined
                  /\ r.kicks = 0
            /\ Called(r, "FeatureDisabled") =>
                  (Len(r.replies) = 1 /\ r.serverConfig = Undefined /\ r.fetches = 0)
            /\ (r.pc = "announce" \/ Called(r, "VotekickStarted")) =>
                  /\ r.config[1].moderation
                  /\ Len(r.args) >= 2
                  /\ AuthorId[i] \notin r.serverConfig[1].blockedUsers
                  /\ r.targetMember # Undefined
                  /\ ~r.targetMember[1].bot

\* C6 witness: moderation is disabled and the invocation has returned with
\* that rejection delivered.
C6_Witness ==
    \E i \in Invocations :
        Delivered(inv[i], "FeatureDisabled") /\ inv[i].pc = "returned"

\* C7: once a marker attachment has failed, the poll is aborted for the
\* reaction error: no timer is started, nothing is re-fetched, no decision
\* is computed and the kick is not called, whatever the other attachment did.
C7_ReactionFailureAborts ==
    \A i \in Invocations :
        LET r == inv[i]
        IN  (\E m \in Markers : r.react[m] = "failed") =>
                /\ HasLogged(r, "Failed to add vote reactions:")
                /\ Called(r, "ReactionSetupFailure")
                /\ r.race = "none"
                /\ ~\E t \in timers : t.inv = i
                /\ r.pc \in {"replying", "returned", "rejected"}
                /\ r.tallyReads = 0 /\ r.message = "unfetched" /\ r.fetches = 1
                /\ r.votekickPasses = Undefined
                /\ r.kicks = 0

\* C7 witness: one attachment succeeded, the other failed, and the abort
\* was delivered.
C7_Witness ==
    \E i \in Invocations :
        /\ inv[i].react["yes"] = "ok"
        /\ inv[i].react["no"] = "failed"
        /\ Delivered(inv[i], "ReactionSetupFailure")

\* C8: no fault leaves execute: its promise is never rejected.
C8_NoFaultEscapes == \A i \in Invocations : inv[i].pc # "rejected"

\* C9: a kick that fails after a Passed decision is reported as
\* PassedButActionFailed and as nothing else; the kick is not called again.
C9_KickFailureReportedApart ==
    \A i \in Invocations :
        LET r == inv[i]
        IN  r.kick = "rejected" =>
                /\ r.votekickPasses = Some(TRUE)
                /\ r.kicks = 1
                /\ HasLogged(r, "Failed to kick user after successful votekick:")
                /\ Len(r.replies) = 2
                /\ r.replies[2].kind = "PassedButActionFailed"
                /\ ~Called(r, "Failed") /\ ~Called(r, "Passed")
                /\ ~Called(r, "UnknownError")
                /\ r.pc \in {"replying", "returned", "rejected"}

\* C9 witness: the kick failed and the distinct outcome was delivered.
C9_Witness ==
    \E i \in Invocations :
        inv[i].kick = "rejected" /\ Delivered(inv[i], "PassedButActionFailed")

\* The causes the top-level handler reports for a failed re-fetch.
FetchCauses ==
    {"fetchMessage failed", "Could not fetch vote message",
     "fetchMembers failed", "Failed to fetch member count"}

\* The re-fetch of the announcement or of the roster gave nothing.
FetchFailed(r) ==
    \/ r.message \in {"absent", "threw"}
    \/ (r.fetches = 2 /\ r.memberCount = Undefined)

\* C10: when the announcement or the roster size cannot be fetched after the
\* window, the poll is aborted with the fetch failure as its cause: there is
\* no decision, no Passed or Failed report and no kick, whatever the votes.
C10_FetchFailureAborts ==
    \A i \in Invocations :
        LET r == inv[i]
            n == Len(r.replies)
        IN  FetchFailed(r) =>
                /\ r.votekickPasses = Undefined
                /\ r.kicks = 0
                /\ ~Called(r, "Passed") /\ ~Called(r, "Failed")
                /\ ~Called(r, "PassedButActionFailed")
                /\ HasLogged(r, "Error in votekick command:")
                /\ n = 2
                /\ r.replies[n].kind = "UnknownError"
                /\ r.replies[n].cause \in FetchCauses
                /\ r.pc \in {"replying", "returned", "rejected"}

\* C10 witness: the roster size was unavailable although a majority had
\* voted yes, and the abort was delivered.
C10_Witness ==
    \E i \in Invocations :
        /\ inv[i].fetches = 2 /\ inv[i].memberCount = Undefined
        /\ inv[i].yesVotes > inv[i].noVotes
        /\ Delivered(inv[i], "UnknownError")

Finished(r) == r.pc \in {"returned", "rejected"}

\* The replies that report an outcome: all but the announcement.
OutcomeReports(r) ==
    {k \in 1..Len(r.replies) : r.replies[k].kind # "VotekickStarted"}

\* C11 as stated: at most one outcome is reported per invocation, also on
\* the paths where sending a reply fails, and once an outcome has been
\* reported no further stage runs: no tally read, no roster fetch, no
\* decision and no kick, and nothing at all once execute has finished (only
\* a late react() settlement is still recorded).
C11_OneOutcome ==
    [][\A i \in Invocations :
          LET r == inv[i]
              q == inv'[i]
          IN  /\ Cardinality(OutcomeReports(q)) <= 1
              /\ OutcomeReports(r) # {} =>
                    /\ q.tallyReads = r.tallyReads
                    /\ q.fetches = r.fetches
                    /\ q.votekickPasses = r.votekickPasses
                    /\ q.kicks = r.kicks
              /\ Finished(r) => q = [r EXCEPT !.react = q.react]]_vars

\* A reply that reports an outcome has been called.
OutcomeCalled(r) ==
    \E k \in 1..Len(r.replies) : r.replies[k].kind # "VotekickStarted"

\* C12: an announced poll eventually finishes with an outcome decided, and
\* its window is left only by one of its own timers firing, a full window or
\* more after it was entered.
C12_AnnouncedPollTerminates ==
    /\ \A i \in Invocations :
          inv[i].voteMessage ~> (Finished(inv[i]) /\ OutcomeCalled(inv[i]))
    /\ [][\A i \in Invocations :
             (inv[i].pc = "waiting" /\ inv'[i].pc # "waiting") =>
                 /\ now >= inv[i].startedAt + VOTE_DURATION
                 /\ \E t \in timers \ timers' : t.inv = i]_vars

\* C12 witness: a poll went through its whole window and finished.
C12_Witness ==
    \E i \in Invocations :
        /\ inv[i].voteMessage /\ inv[i].race = "resolved"
        /\ Finished(inv[i]) /\ OutcomeCalled(inv[i])

\* The replies of a kind.
RepliesOf(r, kind) == {k \in 1..Len(r.replies) : r.replies[k].kind = kind}

\* The threshold, stated without the code's arithmetic: the least number of
\* votes that is at least half the roster.
IsThreshold(required, rosterSize) ==
    2 * required >= rosterSize /\ 2 * (required - 1) < rosterSize

\* C13 as stated: both the Passed and the Failed report print the yes count,
\* the no count, their total and the required-vote threshold; the kick is
\* called once for Passed and not at all for Failed.
C13_ReportsCarryAllFigures ==
    \A i \in Invocations :
        LET r == inv[i]
        IN  \A k \in RepliesOf(r, "Passed") \cup RepliesOf(r, "Failed") :
                /\ DOMAIN r.replies[k].figures = {"yes", "no", "total", "required"}
                /\ r.replies[k].figures.yes = r.yesVotes
                /\ r.replies[k].figures.no = r.noVotes
                /\ r.replies[k].figures.total = r.yesVotes + r.noVotes
                /\ IsThreshold(r.replies[k].figures.required, r.memberCount[1])
                /\ r.kicks = IF r.replies[k].kind = "Passed" THEN 1 ELSE 0

\* C13 amended: the Passed report prints the yes count, the no count and
\* their total, and not the threshold; the Failed report prints all four;
\* the kick is called once for Passed and not at all for Failed.
C13_ReportFigures ==
    \A i \in Invocations :
        LET r == inv[i]
        IN  /\ \A k \in RepliesOf(r, "Passed") :
                  /\ r.replies[k].figures =
                        [yes |-> r.yesVotes, no |-> r.noVotes,
                         total |-> r.yesVotes + r.noVotes]
                  /\ r.kicks = 1 /\ r.kick = "fulfilled"
            /\ \A k \in RepliesOf(r, "Failed") :
                  /\ DOMAIN r.replies[k].figures = {"yes", "no", "total", "required"}
                  /\ r.replies[k].figures.yes = r.yesVotes
                  /\ r.replies[k].figures.no = r.noVotes
                  /\ r.replies[k].figures.total = r.yesVotes + r.noVotes
                  /\ IsThreshold(r.replies[k].figures.required, r.memberCount[1])
                  /\ r.kicks = 0

\* C13 witness: a 10-member roster, 5 yes and 1 no: the poll passed with a
\* threshold of 5, the kick was called once, and "Yes: 5, No: 1 (Total: 6)"
\* was delivered.
C13_Witness ==
    \E i \in Invocations :
        /\ inv[i].memberCount = Some(10)
        /\ inv[i].requiredVotes = 5
        /\ inv[i].kicks = 1
        /\ Delivered(inv[i], "Passed")
        /\ \E k \in RepliesOf(inv[i], "Passed") :
              inv[i].replies[k].figures = [yes |-> 5, no |-> 1, total |-> 6]

\* C14 as stated: the race is never settled by the safety timer, so "Vote
\* timed out" is never reported; when the safety timer fires the race has
\* already resolved and the invocation is left as it is.
C14_PrimaryWinsRace ==
    [][\A i \in Invocations :
          LET r == inv[i]
              q == inv'[i]
          IN  /\ q.race # "rejected"
              /\ ~\E k \in 1..Len(q.replies) : q.replies[k].cause = "Vote timed out"
              /\ (\E t \in timers \ timers' : t.inv = i /\ t.kind = "safety") =>
                    (r.race = "resolved" /\ q = r)]_vars

\* C15 as stated: while an attachment attempt has not completed, the flow
\* is still at the reaction setup.
C15_JoinedPair ==
    \A i \in Invocations :
        (\E m \in Markers : inv[i].react[m] = "pending") => inv[i].pc = "reacting"

\* C15 amended: the race is started only when both attachments have
\* succeeded; the flow leaves the reaction setup with an attempt still
\* pending only towards the abort report, after the other attempt failed.
C15_AllOrFirstFailure ==
    \A i \in Invocations :
        LET r == inv[i]
        IN  /\ r.race # "none" => \A m \in Markers : r.react[m] = "ok"
            /\ ((\E m \in Markers : r.react[m] = "pending") /\ r.pc # "reacting") =>
                  /\ \E m \in Markers : r.react[m] = "failed"
                  /\ Called(r, "ReactionSetupFailure")
                  /\ r.race = "none"
                  /\ r.pc \in {"replying", "returned", "rejected"}

\* C15 witness: the abort report was delivered while the other attachment
\* attempt was still pending.
C15_Witness ==
    \E i \in Invocations :
        /\ inv[i].react["yes"] = "failed"
        /\ inv[i].react["no"] = "pending"
        /\ Delivered(inv[i], "ReactionSetupFailure")

\* C16: the threshold is that of the roster size read at tally time,
\* whatever the size of the roster was when the target was resolved, and the
\* decision follows that threshold.
C16_QuorumBaseAtTally ==
    \A i \in Invocations :
        LET r == inv[i]
        IN  r.votekickPasses # Undefined =>
                /\ r.startCount # Undefined
                /\ IsThreshold(r.requiredVotes, r.memberCount[1])
                /\ r.votekickPasses =
                      Some(r.yesVotes > r.noVotes
                           /\ MeetsQuorum(r.yesVotes, r.memberCount[1]))

\* C16 witness: 2 yes and 0 no would fail on the 10 members present at the
\* start (threshold 5); 6 members left during the window and the poll passed
\* on the 4 that remained (threshold 2).
C16_Witness ==
    \E i \in Invocations :
        /\ inv[i].startCount = Some(10)
        /\ inv[i].memberCount = Some(4)
        /\ inv[i].yesVotes = 2 /\ inv[i].noVotes = 0
        /\ inv[i].requiredVotes = 2
        /\ inv[i].votekickPasses = Some(TRUE)
        /\ inv[i].kicks = 1

\* C17: when the roster fetch of target resolution raises an error, the
\* error is logged and the poll is rejected as TargetNotFound: the top-level
\* handler is not reached, UnknownError is not reported and nothing is
\* announced.
C17_RosterErrorIsNotFound ==
    \A i \in Invocations :
        LET r == inv[i]
        IN  HasLogged(r, "Error fetching members:") =>
                /\ r.logged = <<"Error fetching members:">>
                /\ r.targetMember = Undefined
                /\ Len(r.replies) = 1
                /\ r.replies[1].kind = "TargetNotFound"
                /\ ~r.voteMessage
                /\ r.pc \in {"replying", "returned", "rejected"}

\* C17 witness: the roster fetch failed and TargetNotFound was delivered.
C17_Witness ==
    \E i \in Invocations :
        /\ HasLogged(inv[i], "Error fetching members:")
        /\ inv[i].startCount = Undefined
        /\ Delivered(inv[i], "TargetNotFound")

\* C18: a marker missing from the re-fetched announcement counts as zero
\* votes for its side: the tally goes on to the roster fetch, and the
\* decision is computed from the counts with 0 for a missing marker.
C18_MissingMarkerIsZero ==
    \A i \in Invocations :
        LET r == inv[i]
            yes == IF r.yesReaction = Undefined THEN 0 ELSE r.yesReaction[1]
            no == IF r.noReaction = Undefined THEN 0 ELSE r.noReaction[1]
        IN  r.message = "present" =>
                /\ r.yesVotes = yes /\ r.noVotes = no
                /\ r.fetches < 2 => r.pc = "fetchMemberCount"
                /\ (r.memberCount # Undefined /\ r.memberCount # Some(0)) =>
                      r.votekickPasses =
                          Some(yes > no /\ MeetsQuorum(yes, r.memberCount[1]))

\* C18 witness: the no marker was missing; 3 yes against 0 no passed on a
\* 6-member roster.
C18_Witness ==
    \E i \in Invocations :
        /\ inv[i].message = "present"
        /\ inv[i].yesReaction = Some(3)
        /\ inv[i].noReaction = Undefined
        /\ inv[i].memberCount = Some(6)
        /\ inv[i].votekickPasses = Some(TRUE)

\* C19: two invocations against the same target do not touch each other's
\* data and are not mutually excluded: a step of one leaves the locals of the
\* other as they were, each computes its decision from the counts of its own
\* announcement and the roster it fetched, a poll that passes calls the kick
\* on its own target whatever the other poll did, and each calls it at most
\* once.
C19_PollsAreIndependent ==
    [][ /\ \A i \in Invocations, j \in Invocations :
              (i # j /\ inv'[i] # inv[i]) => inv'[j] = inv[j]
        /\ \A i \in Invocations :
              LET q == inv'[i]
              IN  /\ q.kicks <= 1
                  /\ q.votekickPasses # Undefined =>
                        /\ q.votekickPasses =
                              Some(q.yesVotes > q.noVotes
                                   /\ MeetsQuorum(q.yesVotes, q.memberCount[1]))
                        /\ q.votekickPasses = Some(TRUE) =>
                              (q.kicks = 1 /\ q.kicked = q.targetMember) ]_vars

\* Two polls whose windows both began at time 0 have each called the kick
\* once, on the same member.
C19_Witness ==
    /\ \A i \in Invocations :
          /\ inv[i].race = "resolved"
          /\ inv[i].startedAt = 0
          /\ inv[i].kicks = 1
          /\ inv[i].kicked = Some(Alice)
    /\ now = VOTE_DURATION

\* C20: once the announcement is posted the eligibility facts are not read
\* again: the configuration and the resolved target stay as read at the
\* start, no reply of the eligibility gate is sent, a tally whose roster no
\* longer lists the target still computes the decision, and a poll that
\* passes calls the kick on the member resolved at the start.
C20_EligibilityReadOnce ==
    [][ \A i \in Invocations :
          LET r == inv[i]
              q == inv'[i]
          IN  r.voteMessage =>
                /\ q.config = r.config
                /\ q.serverConfig = r.serverConfig
                /\ q.targetMember = r.targetMember
                /\ \A kind \in GateKinds : ~Called(q, kind)
                /\ (q.memberCount # Undefined /\ q.memberCount # Some(0)) =>
                      q.votekickPasses # Undefined
                /\ q.votekickPasses = Some(TRUE) =>
                      (q.kicks = 1 /\ q.kicked = r.targetMember) ]_vars

\* The target left the roster during the window, the poll passed, and the
\* kick was called on the member resolved at the start.
C20_Witness ==
    \E i \in Invocations :
        /\ inv[i].voteMessage
        /\ ~inv[i].targetListed
        /\ inv[i].votekickPasses = Some(TRUE)
        /\ inv[i].kicks = 1
        /\ inv[i].kicked = Some(Alice)
        /\ inv[i].targetMember = Some(Alice)

====
